---- MODULE Spec2Model ----
(***************************************************************************)
(* Model of pandora's Storage facade (src/pandora/storage_client.py): the  *)
(* Redis keyspace it writes, the accessors built on it, and the lazily     *)
(* created process-wide connection pool.                                   *)
(*                                                                         *)
(* The specifications share the variables:                                 *)
(*   Spec     - accessor calls run one after the other, each call atomic   *)
(*   SpecConc - user accessor calls of several clients, interleaved at the *)
(*              granularity of single Redis commands                       *)
(*   SpecCrash - SpecConc, with clients dying in the middle of a call      *)
(*   SpecDel  - SpecConc with set_user and del_users calls only            *)
(*   SpecNew  - threads constructing Storage() concurrently                *)
(*   SpecKeys - report and observable calls, one after the other, with     *)
(*              ids that are any str, the separator '-' among their        *)
(*              characters                                                 *)
(*   SpecObs  - concurrent set_observable calls over a database that may   *)
(*              hold a record written the old way, with a 'warninglist'    *)
(***************************************************************************)
EXTENDS Integers, Sequences, FiniteSets, TLC

VARIABLES
    store,      \* the Redis database: [hash, set, zset, ttl]
    last,       \* the last completed accessor call: [op, arg, ret, exc, old]
    clients,    \* SpecConc: each client's position in its call and its locals
    cls         \* SpecNew: the Storage class attributes and each thread's position

vars == <<store, last, clients, cls>>

(***************************************************************************)
(* Bounds of the model.                                                    *)
(***************************************************************************)
NumClients == 2     \* concurrent clients (SpecConc)
NumThreads == 2     \* concurrent constructors (SpecNew)

(***************************************************************************)
(* Python values.  A dict value is a str or an int; redis-py sends either  *)
(* as its text, and with decode_responses=True every reply is a str.       *)
(***************************************************************************)
PyStr(s) == [py |-> "str", text |-> s]
PyInt(s) == [py |-> "int", text |-> s]
PyNone == [py |-> "NoneType", text |-> "None"]

\* what redis-py writes on the wire for a value
Encode(v) == v.text
\* what redis-py hands back for a stored value
Decode(s) == PyStr(s)
\* f'{v}'
Format(v) == v.text

\* not v
Not(v) == v.py = "NoneType" \/ (v.py = "str" /\ v.text = "")

\* A str whose characters matter is a sequence of characters.  str.strip()
\* drops the whitespace at both ends and keeps the whitespace inside.
Whitespace == {" ", "\t", "\n"}

RECURSIVE LStrip(_)
LStrip(chars) ==
    IF Len(chars) > 0 /\ Head(chars) \in Whitespace THEN LStrip(Tail(chars)) ELSE chars

RECURSIVE RStrip(_)
RStrip(chars) ==
    IF Len(chars) > 0 /\ chars[Len(chars)] \in Whitespace
    THEN RStrip(SubSeq(chars, 1, Len(chars) - 1))
    ELSE chars

Strip(chars) == RStrip(LStrip(chars))

\* the str of a sequence of characters
RECURSIVE Text(_)
Text(chars) == IF Len(chars) = 0 THEN "" ELSE Head(chars) \o Text(Tail(chars))

Restrict(f, S) == [k \in S |-> f[k]]
Truthy(d) == DOMAIN d # {}

(***************************************************************************)
(* Dates and string order.  The model's strings that are ever compared, in *)
(* code point order (Python's str comparison, Redis' member order), and    *)
(* the epoch value datetime.fromisoformat(s).timestamp() gives each date.  *)
(* D2 is later than D1 as a string and earlier as an instant; D0 is before *)
(* the epoch.                                                              *)
(***************************************************************************)
D0 == "1969-12-31T23:00:00+00:00"
D1 == "2024-05-01T10:00:00+00:00"
D2 == "2024-05-01T11:00:00+02:00"
D3 == "2024-05-02T10:00:00+00:00"
Dates == {D0, D1, D2, D3}

CodePointOrder ==
    <<D0, D1, D2, D3, "admin", "reader", "f1", "f2", "t1", "t2", "u1", "u2">>
Rank(s) == CHOOSE i \in 1..Len(CodePointOrder) : CodePointOrder[i] = s
StrLeq(a, b) == Rank(a) <= Rank(b)

\* a string datetime.fromisoformat rejects with a ValueError
Malformed == "yesterday"

FromIsoRaises(s) == s \notin Dates

FromIsoTimestamp(s) ==
    CASE s = D0 -> -3600
      [] s = D1 -> 1714557600
      [] s = D2 -> 1714554000
      [] s = D3 -> 1714644000

(***************************************************************************)
(* Redis commands, as functions of the database.  A key holds one type of  *)
(* value; a hash or set that becomes empty is removed with its expiry.     *)
(***************************************************************************)
EmptyDb == [hash |-> <<>>, set |-> <<>>, zset |-> <<>>, ttl |-> {}]

KeyExists(db, key) ==
    key \in DOMAIN db.hash \cup DOMAIN db.set \cup DOMAIN db.zset

Del(db, keys) ==
    [hash |-> Restrict(db.hash, DOMAIN db.hash \ keys),
     set  |-> Restrict(db.set, DOMAIN db.set \ keys),
     zset |-> Restrict(db.zset, DOMAIN db.zset \ keys),
     ttl  |-> db.ttl \ keys]

HashAt(db, key) == IF key \in DOMAIN db.hash THEN db.hash[key] ELSE <<>>

HGetAll(db, key) ==
    LET h == HashAt(db, key) IN [f \in DOMAIN h |-> Decode(h[f])]

\* mutant: the hash is replaced by the mapping (DEL then HMSET)
HMSet_Replace(db, key, mapping) ==
    [db EXCEPT !.hash = (key :> [f \in DOMAIN mapping |-> Encode(mapping[f])]) @@ db.hash]

\* mutant: a field the hash already holds keeps its value (HSETNX per field)
HMSet_KeepOld(db, key, mapping) ==
    LET old == HashAt(db, key)
        new == [f \in DOMAIN mapping \cup DOMAIN old |->
                   IF f \in DOMAIN old THEN old[f] ELSE Encode(mapping[f])]
    IN  [db EXCEPT !.hash = (key :> new) @@ db.hash]

HMSet(db, key, mapping) ==
    LET old == HashAt(db, key)
        new == [f \in DOMAIN mapping \cup DOMAIN old |->
                   IF f \in DOMAIN mapping THEN Encode(mapping[f]) ELSE old[f]]
    IN  [db EXCEPT !.hash = (key :> new) @@ db.hash]

HSet(db, key, field, value) ==
    [db EXCEPT !.hash = (key :> ((field :> value) @@ HashAt(db, key))) @@ db.hash]

HExists(db, key, field) == field \in DOMAIN HashAt(db, key)

HDel(db, key, field) ==
    LET old == HashAt(db, key)
        new == Restrict(old, DOMAIN old \ {field})
    IN  IF DOMAIN old = {} THEN db
        ELSE IF DOMAIN new = {} THEN Del(db, {key})
        ELSE [db EXCEPT !.hash = (key :> new) @@ db.hash]

Expire(db, key) ==
    IF KeyExists(db, key) THEN [db EXCEPT !.ttl = db.ttl \cup {key}] ELSE db

SMembers(db, key) == IF key \in DOMAIN db.set THEN db.set[key] ELSE {}

SAdd(db, key, member) ==
    [db EXCEPT !.set = (key :> (SMembers(db, key) \cup {member})) @@ db.set]

SRem(db, key, members) ==
    LET new == SMembers(db, key) \ members
    IN  IF key \notin DOMAIN db.set THEN db
        ELSE IF new = {} THEN Del(db, {key})
        ELSE [db EXCEPT !.set = (key :> new) @@ db.set]

ZSetAt(db, key) == IF key \in DOMAIN db.zset THEN db.zset[key] ELSE <<>>

ZAdd(db, key, member, score) ==
    [db EXCEPT !.zset = (key :> ((member :> score) @@ ZSetAt(db, key))) @@ db.zset]

\* a range bound: a number (inclusive), "(number" (exclusive), "-inf" or "+inf"
Num(n) == <<"num", n>>
Excl(n) == <<"excl", n>>
PosInf == <<"inf", 1>>
NegInf == <<"inf", -1>>

AboveMin(score, min) ==
    CASE min[1] = "num" -> score >= min[2]
      [] min[1] = "excl" -> score > min[2]
      [] min[1] = "inf" -> min[2] < 0

BelowMax(score, max) ==
    CASE max[1] = "num" -> score <= max[2]
      [] max[1] = "excl" -> score < max[2]
      [] max[1] = "inf" -> max[2] > 0

ZInRange(db, key, min, max) ==
    LET z == ZSetAt(db, key)
    IN  {m \in DOMAIN z : AboveMin(z[m], min) /\ BelowMax(z[m], max)}

ZCount(db, key, min, max) == Cardinality(ZInRange(db, key, min, max))

\* members of S from the highest score down, equal scores from the highest member down
RECURSIVE ZDescending(_, _)
ZDescending(z, S) ==
    IF S = {} THEN <<>>
    ELSE LET top == CHOOSE m \in S : \A n \in S :
                       \/ z[n] < z[m]
                       \/ z[n] = z[m] /\ StrLeq(n, m)
         IN  <<top>> \o ZDescending(z, S \ {top})

ZRevRangeByScore(db, key, min, max) ==
    ZDescending(ZSetAt(db, key), ZInRange(db, key, min, max))

(***************************************************************************)
(* list.sort(key=operator.itemgetter(field), reverse=True): stable, and a  *)
(* KeyError when a dict lacks the field.                                   *)
(***************************************************************************)
RECURSIVE InsertDescending(_, _, _)
InsertDescending(s, x, field) ==
    IF Len(s) = 0 THEN <<x>>
    ELSE IF StrLeq(x[field].text, Head(s)[field].text)
         THEN <<Head(s)>> \o InsertDescending(Tail(s), x, field)
         ELSE <<x>> \o s

RECURSIVE SortDescending(_, _)
SortDescending(s, field) ==
    IF Len(s) = 0 THEN <<>>
    ELSE InsertDescending(SortDescending(SubSeq(s, 1, Len(s) - 1), field),
                          s[Len(s)], field)

SortRaises(s, field) == \E i \in 1..Len(s) : field \notin DOMAIN s[i]

\* the orders in which a set can be iterated
Orders(S) ==
    {o \in [1..Cardinality(S) -> S] : \A i, j \in 1..Cardinality(S) : o[i] = o[j] => i = j}


\* sorted(list(S)) for a set of strings
RECURSIVE SortedAscending(_)
SortedAscending(S) ==
    IF S = {} THEN <<>>
    ELSE LET low == CHOOSE m \in S : \A n \in S : StrLeq(m, n)
         IN  <<low>> \o SortedAscending(S \ {low})

Elements(s) == {s[i] : i \in 1..Len(s)}

(***************************************************************************)
(* The records callers pass in.                                            *)
(***************************************************************************)
UserIds == {"u1", "u2"}
RoleNames == {"admin", "reader"}
FileIds == {"f1", "f2"}
TaskIds == {"t1", "t2"}
WorkerNames == {"w1"}
Sha256s == {"aa"}
ObservableTypes == {"ip", "domain"}

\* a dict with the given str fields, and optionally further ones
Dict(fields) == [f \in DOMAIN fields |-> fields[f]]
With(d, field, value) ==
    [f \in DOMAIN d \cup {field} |-> IF f = field THEN value ELSE d[f]]
Optional(d, field, values) == {d} \cup {With(d, field, v) : v \in values}

UserInputs ==
    UNION {Optional(Dict([session_id |-> PyStr(id), last_seen |-> PyStr(seen)]),
                    "name", {PyStr("alice")})
           : id \in UserIds, seen \in {D1, D2}}

RoleInputs ==
    UNION {Optional(Dict([name |-> PyStr(n)]), "description", {PyStr("all")})
           : n \in RoleNames}

FileInputs ==
    {Dict([uuid |-> PyStr(id), size |-> size])
     : id \in FileIds, size \in {PyInt("10"), PyStr("10")}}

TaskInputs ==
    UNION {Optional(Dict([uuid |-> PyStr(id), save_date |-> PyStr(d)]),
                    "status", {PyStr("done")})
           : id \in TaskIds, d \in Dates \cup {Malformed}}

ReportInputs ==
    {Dict([task_uuid |-> PyStr(t), worker_name |-> PyStr(w), status |-> PyStr("ok")])
     : t \in TaskIds, w \in WorkerNames}

ObservableInputs ==
    UNION {Optional(Dict([sha256 |-> PyStr(s), observable_type |-> PyStr(t),
                          last_seen |-> PyStr(seen)]),
                    "warninglist", {PyStr("wl")})
           : s \in Sha256s, t \in ObservableTypes, seen \in {D1, D2, Malformed}}

\* observable values and types as typed in by a user
ListedValues ==
    {<<"a", "b">>, <<" ", "a", "b">>, <<"\t", "a", "b", "\n", " ">>,
     <<" ", "a", " ", "b", " ">>}
ListedTypes == {<<"i", "p">>, <<" ", "i", "p", "\n">>, <<"f", "q">>}

\* first_date and last_date as callers give them (the defaults are 0 and '+Inf')
FirstDates == {Num(0), Num(FromIsoTimestamp(D1)), Excl(FromIsoTimestamp(D1))}
LastDates == {PosInf, Num(FromIsoTimestamp(D1)), Excl(FromIsoTimestamp(D3))}

(***************************************************************************)
(* Store keys.                                                             *)
(***************************************************************************)
UserKey(session_id) == "users:" \o session_id
RoleKey(role_name) == "roles:" \o role_name
FileKey(file_id) == "files:" \o file_id
TaskKey(task_id) == "tasks:" \o task_id
ReportKey(task_uuid, worker_name) == "reports:" \o task_uuid \o "-" \o worker_name
ObservableId(sha256, observable_type) == sha256 \o "-" \o observable_type
ObservableKey(identifier) == "observables:" \o identifier
TaskObservablesKey(task_uuid) == task_uuid \o ":observables"

(***************************************************************************)
(* User accessor.                                                          *)
(***************************************************************************)
GetUserOf(db, user_id) == HGetAll(db, UserKey(user_id))

SetUserHmset(db, user) == HMSet(db, UserKey(Format(user["session_id"])), user)
SetUserExpire(db, user) == Expire(db, UserKey(Format(user["session_id"])))
\* mutant: the session id is never added to the membership set
SetUserSadd_Skip(db, user) == db

SetUserSadd(db, user) == SAdd(db, "users", Encode(user["session_id"]))

SetUserOf(db, user) ==
    SetUserSadd(SetUserExpire(SetUserHmset(db, user), user), user)

\* the for loop of get_users over the members in iteration order
RECURSIVE GetUsersLoop(_, _, _, _)
GetUsersLoop(db, order, users, to_pop) ==
    IF Len(order) = 0 THEN [users |-> users, to_pop |-> to_pop]
    ELSE LET user == HGetAll(db, UserKey(Head(order)))
         IN  IF Truthy(user)
             THEN GetUsersLoop(db, Tail(order), Append(users, user), to_pop)
             ELSE GetUsersLoop(db, Tail(order), users, Append(to_pop, Head(order)))

\* mutant: the stale ids are collected and never removed
GetUsersPrune_NoSrem(db, to_pop) == db

GetUsersPrune(db, to_pop) ==
    IF Len(to_pop) > 0 THEN SRem(db, "users", Elements(to_pop)) ELSE db

\* mutant: the records are returned in iteration order
GetUsersReturn_NoSort(users) == [ret |-> users, exc |-> ""]

GetUsersReturn(users) ==
    IF SortRaises(users, "last_seen")
    THEN [ret |-> <<>>, exc |-> "KeyError"]
    ELSE [ret |-> SortDescending(users, "last_seen"), exc |-> ""]

GetUsersOf(db, order) ==
    LET loop == GetUsersLoop(db, order, <<>>, <<>>)
        out == GetUsersReturn(loop.users)
    IN  [db |-> GetUsersPrune(db, loop.to_pop), ret |-> out.ret, exc |-> out.exc]

\* mutant: only the membership set is deleted
DelUsersOf_SetOnly(db) == Del(db, {"users"})

DelUsersOf(db) ==
    Del(db, {UserKey(key) : key \in SMembers(db, "users")} \cup {"users"})

(***************************************************************************)
(* Role accessor.                                                          *)
(***************************************************************************)
GetRoleOf(db, role_name) == HGetAll(db, RoleKey(role_name))

GetRolesOf(db) ==
    LET names == SortedAscending(SMembers(db, "roles"))
    IN  [i \in 1..Len(names) |-> GetRoleOf(db, names[i])]

SetRoleOf(db, role) ==
    SAdd(HMSet(db, RoleKey(Format(role["name"])), role), "roles", Encode(role["name"]))

HasRolesOf(db) == KeyExists(db, "roles")

(***************************************************************************)
(* Observables lists.                                                      *)
(***************************************************************************)
GetSuspiciousObservablesOf(db) == HGetAll(db, "suspicious_observables")

\* mutant: the value and the type are stored as given
AddSuspiciousObservableOf_NoStrip(db, observable, observable_type) ==
    HSet(db, "suspicious_observables", Text(observable), Text(observable_type))

AddSuspiciousObservableOf(db, observable, observable_type) ==
    HSet(db, "suspicious_observables", Text(Strip(observable)),
         Text(Strip(observable_type)))

DeleteSuspiciousObservableOf(db, observable) ==
    HDel(db, "suspicious_observables", Text(Strip(observable)))

GetLegitimateObservablesOf(db) == HGetAll(db, "legitimate_observables")

AddLegitimateObservableOf(db, observable, observable_type) ==
    HSet(db, "legitimate_observables", Text(Strip(observable)),
         Text(Strip(observable_type)))

DeleteLegitimateObservableOf(db, observable) ==
    HDel(db, "legitimate_observables", Text(Strip(observable)))

(***************************************************************************)
(* File accessor.                                                          *)
(***************************************************************************)
GetFileOf(db, file_id) == HGetAll(db, FileKey(file_id))

SetFileOf(db, file_details) ==
    SAdd(HMSet(db, FileKey(Format(file_details["uuid"])), file_details),
         "files", Encode(file_details["uuid"]))

GetFilesOf(db, order) == [i \in 1..Len(order) |-> GetFileOf(db, order[i])]

(***************************************************************************)
(* Observable accessor.                                                    *)
(***************************************************************************)
ObservableIdOf(observable) ==
    ObservableId(Format(observable["sha256"]), Format(observable["observable_type"]))

SetObservableHmset(db, observable) ==
    HMSet(db, ObservableKey(ObservableIdOf(observable)), observable)

SetObservableHexists(db, observable) ==
    HExists(db, ObservableKey(ObservableIdOf(observable)), "warninglist")

\* mutant: the old field is found and left in the record
SetObservableHdel_Skip(db, observable) == db

SetObservableHdel(db, observable) ==
    HDel(db, ObservableKey(ObservableIdOf(observable)), "warninglist")

\* clear the old way to store warning lists
SetObservableClear(db, observable) ==
    IF SetObservableHexists(db, observable) THEN SetObservableHdel(db, observable)
    ELSE db

SetObservableZadd(db, observable) ==
    ZAdd(db, "observables", ObservableIdOf(observable),
         FromIsoTimestamp(Format(observable["last_seen"])))

\* the exception set_observable ends in, "" when it returns
SetObservableExc(observable) ==
    IF FromIsoRaises(Format(observable["last_seen"])) THEN "ValueError" ELSE ""

\* mutant: last_seen is parsed where the timestamp is used, after the record
\* was written
SetObservableOf_ParseLate(db, observable) ==
    IF SetObservableExc(observable) # ""
    THEN SetObservableClear(SetObservableHmset(db, observable), observable)
    ELSE SetObservableZadd(
             SetObservableClear(SetObservableHmset(db, observable), observable),
             observable)

\* the timestamp is computed first: a last_seen that does not parse raises
\* before any command is sent
SetObservableOf(db, observable) ==
    IF SetObservableExc(observable) # "" THEN db
    ELSE SetObservableZadd(
             SetObservableClear(SetObservableHmset(db, observable), observable),
             observable)

\* mutant: the identifier is always built from sha256 and observable_type
GetObservableCall_IgnoresIdentifier(db, sha256, observable_type, identifier) ==
    HGetAll(db, ObservableKey(ObservableId(Format(sha256), Format(observable_type))))

\* get_observable(sha256=None, observable_type=None, identifier=None)
GetObservableCall(db, sha256, observable_type, identifier) ==
    LET id == IF Not(identifier)
              THEN ObservableId(Format(sha256), Format(observable_type))
              ELSE identifier.text
    IN  HGetAll(db, ObservableKey(id))

\* get_observable(identifier=identifier)
GetObservableById(db, identifier) ==
    GetObservableCall(db, PyNone, PyNone, PyStr(identifier))

\* get_observable(sha256, observable_type)
GetObservableOf(db, sha256, observable_type) ==
    GetObservableCall(db, PyStr(sha256), PyStr(observable_type), PyNone)

\* the for loop of get_task_observables over the members in iteration order
RECURSIVE GetTaskObservablesLoop(_, _, _)
GetTaskObservablesLoop(db, order, observables) ==
    IF Len(order) = 0 THEN observables
    ELSE LET observable == GetObservableById(db, Head(order))
         IN  GetTaskObservablesLoop(db, Tail(order),
                                    IF Truthy(observable)
                                    THEN Append(observables, observable)
                                    ELSE observables)

\* mutant: the ids without a record are removed from the set, as get_users does
GetTaskObservablesOf_Prunes(db, task_uuid, order) ==
    LET missing == {id \in Elements(order) : ~Truthy(GetObservableById(db, id))}
    IN  [db |-> IF missing # {} THEN SRem(db, TaskObservablesKey(task_uuid), missing)
                ELSE db,
         ret |-> GetTaskObservablesLoop(db, order, <<>>)]

\* the database after the call and the list returned
GetTaskObservablesOf(db, task_uuid, order) ==
    [db |-> db, ret |-> GetTaskObservablesLoop(db, order, <<>>)]

AddTaskObservableOf(db, task_uuid, sha256, observable_type) ==
    SAdd(db, TaskObservablesKey(task_uuid), ObservableId(sha256, observable_type))

(***************************************************************************)
(* Task accessor.                                                          *)
(***************************************************************************)
GetTaskOf(db, task_id) == HGetAll(db, TaskKey(task_id))

\* the exception set_task ends in, "" when it returns
SetTaskExc(task) ==
    IF FromIsoRaises(Format(task["save_date"])) THEN "ValueError" ELSE ""

\* the timestamp is computed first: a save_date that does not parse raises
\* before any command is sent
SetTaskOf(db, task) ==
    IF SetTaskExc(task) # "" THEN db
    ELSE ZAdd(HMSet(db, TaskKey(Format(task["uuid"])), task),
              "tasks", Encode(task["uuid"]), FromIsoTimestamp(Format(task["save_date"])))

GetTasksResolve(db, uuids) == [i \in 1..Len(uuids) |-> GetTaskOf(db, uuids[i])]

GetTasksReturn(tasks) ==
    IF SortRaises(tasks, "save_date")
    THEN [ret |-> <<>>, exc |-> "KeyError"]
    ELSE [ret |-> SortDescending(tasks, "save_date"), exc |-> ""]

\* mutant: the lower bound is taken as exclusive
GetTasksOf_ExclusiveMin(db, first_date, last_date) ==
    GetTasksReturn(
        GetTasksResolve(db, ZRevRangeByScore(db, "tasks",
                                             IF first_date[1] = "num"
                                             THEN Excl(first_date[2]) ELSE first_date,
                                             last_date)))

GetTasksOf(db, first_date, last_date) ==
    GetTasksReturn(
        GetTasksResolve(db, ZRevRangeByScore(db, "tasks", first_date, last_date)))

\* mutant: the cardinality of the whole index, whatever the bounds
CountTasksOf_Zcard(db, first_date, last_date) ==
    Cardinality(DOMAIN ZSetAt(db, "tasks"))

CountTasksOf(db, first_date, last_date) ==
    ZCount(db, "tasks", first_date, last_date)

(***************************************************************************)
(* Report accessor.                                                        *)
(***************************************************************************)
GetReportOf(db, task_uuid, worker_name) ==
    HGetAll(db, ReportKey(task_uuid, worker_name))

SetReportHmset(db, report) ==
    HMSet(db, ReportKey(Format(report["task_uuid"]), Format(report["worker_name"])),
          report)

\* mutant: the task's status is left as it is
SetReportDropStatus_Skip(db, report) == db

\* in case the status of the task was set, drop it
SetReportDropStatus(db, report) ==
    HDel(db, TaskKey(Format(report["task_uuid"])), "status")

SetReportOf(db, report) == SetReportDropStatus(SetReportHmset(db, report), report)

(***************************************************************************)
(* Entity families and the keys each owns.  Spec exercises one family at   *)
(* a time, starting the next one from a database holding none of the       *)
(* previous one's keys: the accessors of different families share no key   *)
(* (reports belong with the tasks whose status they clear).                *)
(***************************************************************************)
Families == {"user", "role", "file", "task", "observable", "list"}

FamilyKeys(family) ==
    CASE family = "user" -> {"users"} \cup {UserKey(id) : id \in UserIds}
      [] family = "role" -> {"roles"} \cup {RoleKey(n) : n \in RoleNames}
      [] family = "file" -> {"files"} \cup {FileKey(id) : id \in FileIds}
      [] family = "task" ->
            {"tasks"} \cup {TaskKey(id) : id \in TaskIds}
            \cup {ReportKey(t, w) : t \in TaskIds, w \in WorkerNames}
      [] family = "observable" ->
            {"observables"}
            \cup {ObservableKey(ObservableId(s, t)) : s \in Sha256s, t \in ObservableTypes}
            \cup {TaskObservablesKey(t) : t \in TaskIds}
      [] family = "list" -> {"suspicious_observables", "legitimate_observables"}

AllKeys(db) == DOMAIN db.hash \cup DOMAIN db.set \cup DOMAIN db.zset

KeysOf == [f \in Families |-> FamilyKeys(f)]

InUse(db) == {f \in Families : KeysOf[f] \cap AllKeys(db) # {}}

MayUse(family) == InUse(store) \subseteq {family}

(***************************************************************************)
(* Spec: the accessor calls, one at a time, each run to its end.           *)
(***************************************************************************)
\* op(arg) returned ret (an int as <<n>>) or raised exc; old is what the call
\* found under the key it is about (the record it overwrites, the members it
\* deletes)
Call(op, arg, ret, exc, old) ==
    [op |-> op, arg |-> arg, ret |-> ret, exc |-> exc, old |-> old]

Idle == [pc |-> "idle", user |-> <<>>, order |-> <<>>, users |-> <<>>,
         to_pop |-> <<>>, to_delete |-> {}, observable |-> <<>>]
IdleClients == [c \in 1..NumClients |-> Idle]

\* Storage before any construction: _instance is None (0), _redis_pool_storage
\* is not an attribute yet (0), no ConnectionPool was ever created
Outside == [pc |-> "outside", self |-> 0, conn |-> 0, exc |-> ""]
NoClass == [instance |-> 0, pool |-> 0, pools |-> 0,
            threads |-> [t \in 1..NumThreads |-> Outside]]

Init ==
    /\ store = EmptyDb
    /\ last = Call("init", <<>>, <<>>, "", <<>>)
    /\ clients = IdleClients
    /\ cls = NoClass

Returns(db, op, arg, ret, exc, old) ==
    /\ store' = db
    /\ last' = Call(op, arg, ret, exc, old)
    /\ UNCHANGED <<clients, cls>>

SetUser ==
    /\ MayUse("user")
    /\ \E user \in UserInputs :
        Returns(SetUserOf(store, user), "set_user", user, <<>>, "",
                GetUserOf(store, Format(user["session_id"])))

GetUser ==
    /\ MayUse("user")
    /\ \E id \in UserIds :
        Returns(store, "get_user", id, GetUserOf(store, id), "", <<>>)

GetUsers ==
    /\ MayUse("user")
    /\ \E order \in Orders(SMembers(store, "users")) :
        LET out == GetUsersOf(store, order)
        IN  Returns(out.db, "get_users", order, out.ret, out.exc, <<>>)

DelUsers ==
    /\ MayUse("user")
    /\ Returns(DelUsersOf(store), "del_users", <<>>, <<>>, "",
               SortedAscending(SMembers(store, "users")))

\* Redis drops a key whose time-to-live has elapsed
SessionExpires ==
    \E id \in UserIds :
        /\ UserKey(id) \in store.ttl
        /\ Returns(Del(store, {UserKey(id)}), "expired", id, <<>>, "", <<>>)

SetRole ==
    /\ MayUse("role")
    /\ \E role \in RoleInputs :
        Returns(SetRoleOf(store, role), "set_role", role, <<>>, "",
                GetRoleOf(store, Format(role["name"])))

GetRole ==
    /\ MayUse("role")
    /\ \E name \in RoleNames :
        Returns(store, "get_role", name, GetRoleOf(store, name), "", <<>>)

GetRoles ==
    /\ MayUse("role")
    /\ Returns(store, "get_roles", <<>>, GetRolesOf(store), "", <<>>)

SetFile ==
    /\ MayUse("file")
    /\ \E file_details \in FileInputs :
        Returns(SetFileOf(store, file_details), "set_file", file_details, <<>>, "",
                GetFileOf(store, Format(file_details["uuid"])))

GetFile ==
    /\ MayUse("file")
    /\ \E id \in FileIds :
        Returns(store, "get_file", id, GetFileOf(store, id), "", <<>>)

SetObservable ==
    /\ MayUse("observable")
    /\ \E observable \in ObservableInputs :
        Returns(SetObservableOf(store, observable), "set_observable", observable,
                <<>>, SetObservableExc(observable),
                GetObservableById(store, ObservableIdOf(observable)))

GetObservable ==
    /\ MayUse("observable")
    /\ \E s \in Sha256s, t \in ObservableTypes :
        Returns(store, "get_observable", <<s, t>>, GetObservableOf(store, s, t),
                "", <<>>)

GetObservableByIdentifier ==
    /\ MayUse("observable")
    /\ \E s \in Sha256s, t \in ObservableTypes :
        Returns(store, "get_observable:identifier", s \o "-" \o t,
                GetObservableById(store, s \o "-" \o t), "", <<>>)

AddTaskObservable ==
    /\ MayUse("observable")
    /\ \E task_uuid \in TaskIds, s \in Sha256s, t \in ObservableTypes :
        Returns(AddTaskObservableOf(store, task_uuid, s, t), "add_task_observable",
                <<task_uuid, s, t>>, <<>>, "", <<>>)

GetTaskObservables ==
    /\ MayUse("observable")
    /\ \E task_uuid \in TaskIds :
        \E order \in Orders(SMembers(store, TaskObservablesKey(task_uuid))) :
            LET out == GetTaskObservablesOf(store, task_uuid, order)
            IN  Returns(out.db, "get_task_observables", <<task_uuid, order>>,
                        out.ret, "", <<>>)

GetSuspiciousObservables ==
    /\ MayUse("list")
    /\ Returns(store, "get_suspicious_observables", <<>>,
               GetSuspiciousObservablesOf(store), "", <<>>)

AddSuspiciousObservable ==
    /\ MayUse("list")
    /\ \E observable \in ListedValues, observable_type \in ListedTypes :
        Returns(AddSuspiciousObservableOf(store, observable, observable_type),
                "add_suspicious_observable", <<observable, observable_type>>,
                <<>>, "", GetSuspiciousObservablesOf(store))

DeleteSuspiciousObservable ==
    /\ MayUse("list")
    /\ \E observable \in ListedValues :
        Returns(DeleteSuspiciousObservableOf(store, observable),
                "delete_suspicious_observable", <<observable>>, <<>>, "",
                GetSuspiciousObservablesOf(store))

GetLegitimateObservables ==
    /\ MayUse("list")
    /\ Returns(store, "get_legitimate_observables", <<>>,
               GetLegitimateObservablesOf(store), "", <<>>)

AddLegitimateObservable ==
    /\ MayUse("list")
    /\ \E observable \in ListedValues, observable_type \in ListedTypes :
        Returns(AddLegitimateObservableOf(store, observable, observable_type),
                "add_legitimate_observable", <<observable, observable_type>>,
                <<>>, "", GetLegitimateObservablesOf(store))

DeleteLegitimateObservable ==
    /\ MayUse("list")
    /\ \E observable \in ListedValues :
        Returns(DeleteLegitimateObservableOf(store, observable),
                "delete_legitimate_observable", <<observable>>, <<>>, "",
                GetLegitimateObservablesOf(store))

SetTask ==
    /\ MayUse("task")
    /\ \E task \in TaskInputs :
        Returns(SetTaskOf(store, task), "set_task", task, <<>>, SetTaskExc(task),
                GetTaskOf(store, Format(task["uuid"])))

GetTask ==
    /\ MayUse("task")
    /\ \E id \in TaskIds :
        Returns(store, "get_task", id, GetTaskOf(store, id), "", <<>>)

GetTasks ==
    /\ MayUse("task")
    /\ \E first_date \in FirstDates, last_date \in LastDates :
        LET out == GetTasksOf(store, first_date, last_date)
        IN  Returns(store, "get_tasks", <<first_date, last_date>>, out.ret, out.exc,
                    <<>>)

CountTasks ==
    /\ MayUse("task")
    /\ \E first_date \in FirstDates, last_date \in LastDates :
        Returns(store, "count_tasks", <<first_date, last_date>>,
                <<CountTasksOf(store, first_date, last_date)>>, "", <<>>)

\* old: the record of the report's task before the call
SetReport ==
    /\ MayUse("task")
    /\ \E report \in ReportInputs :
        Returns(SetReportOf(store, report), "set_report", report, <<>>, "",
                GetTaskOf(store, Format(report["task_uuid"])))

GetReport ==
    /\ MayUse("task")
    /\ \E t \in TaskIds, w \in WorkerNames :
        Returns(store, "get_report", <<t, w>>, GetReportOf(store, t, w), "", <<>>)

Next ==
    \/ SetUser \/ GetUser \/ GetUsers \/ DelUsers \/ SessionExpires
    \/ SetRole \/ GetRole \/ GetRoles
    \/ SetFile \/ GetFile
    \/ SetObservable \/ GetObservable \/ GetObservableByIdentifier
    \/ AddTaskObservable \/ GetTaskObservables
    \/ GetSuspiciousObservables \/ AddSuspiciousObservable \/ DeleteSuspiciousObservable
    \/ GetLegitimateObservables \/ AddLegitimateObservable \/ DeleteLegitimateObservable
    \/ SetTask \/ GetTask \/ GetTasks \/ CountTasks
    \/ SetReport \/ GetReport

Spec == Init /\ [][Next]_vars

(***************************************************************************)
(* SpecConc: clients calling the user accessor concurrently.  Each Redis   *)
(* command is one atomic step; a client may stop between two of them.      *)
(***************************************************************************)
\* the sessions written in SpecConc
SessionInputs == {u \in UserInputs : Format(u["last_seen"]) = D1 /\ "name" \notin DOMAIN u}

At(c, pc) == clients[c].pc = pc

Step(c, db, local) ==
    /\ store' = db
    /\ clients' = [clients EXCEPT ![c] = local]
    /\ UNCHANGED <<last, cls>>

CallSetUser(c) ==
    \E user \in SessionInputs :
        /\ At(c, "idle")
        /\ Step(c, store, [Idle EXCEPT !.pc = "set_user:hmset", !.user = user])

SetUserStepHmset(c) ==
    /\ At(c, "set_user:hmset")
    /\ Step(c, SetUserHmset(store, clients[c].user),
            [clients[c] EXCEPT !.pc = "set_user:expire"])

SetUserStepExpire(c) ==
    /\ At(c, "set_user:expire")
    /\ Step(c, SetUserExpire(store, clients[c].user),
            [clients[c] EXCEPT !.pc = "set_user:sadd"])

SetUserStepSadd(c) ==
    /\ At(c, "set_user:sadd")
    /\ Step(c, SetUserSadd(store, clients[c].user), Idle)

CallGetUsers(c) ==
    /\ At(c, "idle")
    /\ Step(c, store, [Idle EXCEPT !.pc = "get_users:smembers"])

GetUsersStepSmembers(c) ==
    \E order \in Orders(SMembers(store, "users")) :
        /\ At(c, "get_users:smembers")
        /\ Step(c, store, [clients[c] EXCEPT !.pc = "get_users:for", !.order = order])

\* one iteration of the for loop: a single hgetall
GetUsersStepHgetall(c) ==
    LET me == clients[c]
        one == GetUsersLoop(store, <<Head(me.order)>>, me.users, me.to_pop)
    IN  /\ At(c, "get_users:for")
        /\ Len(me.order) > 0
        /\ Step(c, store, [me EXCEPT !.order = Tail(me.order),
                                     !.users = one.users, !.to_pop = one.to_pop])

GetUsersStepSrem(c) ==
    LET me == clients[c]
    IN  /\ At(c, "get_users:for")
        /\ Len(me.order) = 0
        /\ Step(c, GetUsersPrune(store, me.to_pop), [me EXCEPT !.pc = "get_users:sort"])

GetUsersStepReturn(c) ==
    /\ At(c, "get_users:sort")
    /\ Step(c, store, Idle)

CallDelUsers(c) ==
    /\ At(c, "idle")
    /\ Step(c, store, [Idle EXCEPT !.pc = "del_users:smembers"])

DelUsersStepSmembers(c) ==
    /\ At(c, "del_users:smembers")
    /\ Step(c, store,
            [clients[c] EXCEPT !.pc = "del_users:delete",
                               !.to_delete = {UserKey(key) : key \in SMembers(store, "users")}
                                             \cup {"users"}])

DelUsersStepDelete(c) ==
    /\ At(c, "del_users:delete")
    /\ Step(c, Del(store, clients[c].to_delete), Idle)

\* the calling process dies in the middle of a call
Crash(c) ==
    /\ ~At(c, "idle")
    /\ Step(c, store, Idle)

SessionExpiresConc ==
    \E id \in UserIds :
        /\ UserKey(id) \in store.ttl
        /\ store' = Del(store, {UserKey(id)})
        /\ UNCHANGED <<last, clients, cls>>

ClientStep(c) ==
    \/ CallSetUser(c) \/ SetUserStepHmset(c) \/ SetUserStepExpire(c) \/ SetUserStepSadd(c)
    \/ CallGetUsers(c) \/ GetUsersStepSmembers(c) \/ GetUsersStepHgetall(c)
    \/ GetUsersStepSrem(c) \/ GetUsersStepReturn(c)
    \/ CallDelUsers(c) \/ DelUsersStepSmembers(c) \/ DelUsersStepDelete(c)

NextConc == (\E c \in 1..NumClients : ClientStep(c)) \/ SessionExpiresConc

SpecConc == Init /\ [][NextConc]_vars

\* SpecConc, and any client may die between two commands of its call
NextCrash == NextConc \/ \E c \in 1..NumClients : Crash(c)

SpecCrash == Init /\ [][NextCrash]_vars

AllIdle == \A c \in 1..NumClients : At(c, "idle")

\* set_user and del_users calls of several clients, nothing else happening
NextDel ==
    \E c \in 1..NumClients :
        \/ CallSetUser(c) \/ SetUserStepHmset(c) \/ SetUserStepExpire(c)
        \/ SetUserStepSadd(c)
        \/ CallDelUsers(c) \/ DelUsersStepSmembers(c) \/ DelUsersStepDelete(c)

SpecDel == Init /\ [][NextDel]_vars

(***************************************************************************)
(* SpecNew: threads evaluating Storage() and then the storage property,    *)
(* interleaved statement by statement.  Objects and pools are numbered by  *)
(* the thread that created them; 0 is None / no such attribute.            *)
(***************************************************************************)
Thread(t) == cls.threads[t]

Move(t, instance, pool, pools, thread) ==
    /\ cls' = [instance |-> instance, pool |-> pool, pools |-> pools,
               threads |-> [cls.threads EXCEPT ![t] = thread]]
    /\ UNCHANGED <<store, last, clients>>

Same(t, thread) == Move(t, cls.instance, cls.pool, cls.pools, thread)

\* Storage(): enter __new__
NewEnter(t) ==
    /\ Thread(t).pc = "outside"
    /\ Same(t, [Outside EXCEPT !.pc = "new:if"])

\* if cls._instance is None
NewIf(t) ==
    /\ Thread(t).pc = "new:if"
    /\ Same(t, [Thread(t) EXCEPT !.pc = IF cls.instance = 0 THEN "new:instance"
                                                            ELSE "new:return"])

\* cls._instance = super().__new__(cls)
NewInstance(t) ==
    /\ Thread(t).pc = "new:instance"
    /\ Move(t, t, cls.pool, cls.pools, [Thread(t) EXCEPT !.pc = "new:pool"])

\* cls._redis_pool_storage = ConnectionPool(...)
NewPool(t) ==
    /\ Thread(t).pc = "new:pool"
    /\ Move(t, cls.instance, t, cls.pools + 1, [Thread(t) EXCEPT !.pc = "new:return"])

\* return cls._instance
NewReturn(t) ==
    /\ Thread(t).pc = "new:return"
    /\ Same(t, [Thread(t) EXCEPT !.pc = "storage", !.self = cls.instance])

\* self.storage: Redis(connection_pool=self._redis_pool_storage)
StorageProperty(t) ==
    /\ Thread(t).pc = "storage"
    /\ Same(t, [Thread(t) EXCEPT !.pc = "done", !.conn = cls.pool,
                                 !.exc = IF cls.pool = 0 THEN "AttributeError" ELSE ""])

\* the caller goes on to its next Storage()
Again(t) ==
    /\ Thread(t).pc = "done"
    /\ Same(t, Outside)

NextNew ==
    \E t \in 1..NumThreads :
        \/ NewEnter(t) \/ NewIf(t) \/ NewInstance(t) \/ NewPool(t)
        \/ NewReturn(t) \/ StorageProperty(t) \/ Again(t)

SpecNew == Init /\ [][NextNew]_vars

(***************************************************************************)
(* SpecObs: clients calling set_observable concurrently, one Redis command *)
(* a step.  The database may start with an observable stored by an older   *)
(* version: a record with a 'warninglist' field, indexed like any other.   *)
(***************************************************************************)
LegacyObservable ==
    Dict([sha256 |-> PyStr("aa"), observable_type |-> PyStr("ip"),
          last_seen |-> PyStr(D3), value |-> PyStr("192.0.2.1"),
          warninglist |-> PyStr("wl")])

LegacyDb ==
    SetObservableZadd(SetObservableHmset(EmptyDb, LegacyObservable), LegacyObservable)

InitObs ==
    /\ store \in {EmptyDb, LegacyDb}
    /\ last = Call("init", <<>>, <<>>, "", <<>>)
    /\ clients = IdleClients
    /\ cls = NoClass

\* the observables written in SpecObs
ObservableInputsConc == {o \in ObservableInputs : Format(o["last_seen"]) = D1}

CallSetObservable(c) ==
    \E observable \in ObservableInputsConc :
        /\ At(c, "idle")
        /\ Step(c, store, [Idle EXCEPT !.pc = "set_observable:hmset",
                                       !.observable = observable])

SetObservableStepHmset(c) ==
    /\ At(c, "set_observable:hmset")
    /\ Step(c, SetObservableHmset(store, clients[c].observable),
            [clients[c] EXCEPT !.pc = "set_observable:hexists"])

SetObservableStepHexists(c) ==
    /\ At(c, "set_observable:hexists")
    /\ Step(c, store,
            [clients[c] EXCEPT !.pc = IF SetObservableHexists(store, clients[c].observable)
                                      THEN "set_observable:hdel"
                                      ELSE "set_observable:zadd"])

SetObservableStepHdel(c) ==
    /\ At(c, "set_observable:hdel")
    /\ Step(c, SetObservableHdel(store, clients[c].observable),
            [clients[c] EXCEPT !.pc = "set_observable:zadd"])

\* the last command of the call; last records the call that has completed
SetObservableStepZadd(c) ==
    /\ At(c, "set_observable:zadd")
    /\ store' = SetObservableZadd(store, clients[c].observable)
    /\ clients' = [clients EXCEPT ![c] = Idle]
    /\ last' = Call("set_observable", clients[c].observable, <<>>, "", <<>>)
    /\ UNCHANGED cls

NextObs ==
    \E c \in 1..NumClients :
        \/ CallSetObservable(c) \/ SetObservableStepHmset(c)
        \/ SetObservableStepHexists(c) \/ SetObservableStepHdel(c)
        \/ SetObservableStepZadd(c)

SpecObs == InitObs /\ [][NextObs]_vars

(***************************************************************************)
(* SpecKeys: set_report, get_report, set_observable and get_observable     *)
(* called with the str values their signatures admit.  A task uuid holds   *)
(* '-' as every UUID does; nothing in the accessors restricts the other    *)
(* fields or the length of any of them.                                    *)
(***************************************************************************)
AnyTaskUuids == {"t1", "t1-w"}
AnyWorkerNames == {"x", "w-x"}
AnySha256s == {"aa", "aa-ip"}
AnyObservableTypes == {"ip", "ip-ip"}

AnyReport(task_uuid, worker_name) ==
    Dict([task_uuid |-> PyStr(task_uuid), worker_name |-> PyStr(worker_name),
          status |-> PyStr("ok")])

AnyObservable(sha256, observable_type) ==
    Dict([sha256 |-> PyStr(sha256), observable_type |-> PyStr(observable_type),
          last_seen |-> PyStr(D1)])

SetReportAny ==
    \E t \in AnyTaskUuids, w \in AnyWorkerNames :
        Returns(SetReportOf(store, AnyReport(t, w)), "set_report", AnyReport(t, w),
                <<>>, "", GetReportOf(store, t, w))

GetReportAny ==
    \E t \in AnyTaskUuids, w \in AnyWorkerNames :
        Returns(store, "get_report", <<t, w>>, GetReportOf(store, t, w), "", <<>>)

SetObservableAny ==
    \E s \in AnySha256s, t \in AnyObservableTypes :
        Returns(SetObservableOf(store, AnyObservable(s, t)), "set_observable",
                AnyObservable(s, t), <<>>, SetObservableExc(AnyObservable(s, t)),
                GetObservableOf(store, s, t))

GetObservableAny ==
    \E s \in AnySha256s, t \in AnyObservableTypes :
        Returns(store, "get_observable", <<s, t>>, GetObservableOf(store, s, t),
                "", <<>>)

NextKeys == SetReportAny \/ GetReportAny \/ SetObservableAny \/ GetObservableAny

SpecKeys == Init /\ [][NextKeys]_vars

(***************************************************************************)
(* Properties.                                                             *)
(***************************************************************************)
HasRecord(db, key) == key \in DOMAIN db.hash
SessionIds(users) == {Format(users[i]["session_id"]) : i \in 1..Len(users)}

\* C1: self-healing.  A get_users() that runs to its end from a state where id
\* is a member of 'users' and users:{id} is gone returns only non-empty records,
\* none of them for id, and leaves id out of 'users'.
C1_SelfHealing ==
    [][\A id \in UserIds :
          (/\ last'.op = "get_users"
           /\ last'.exc = ""
           /\ id \in SMembers(store, "users")
           /\ ~HasRecord(store, UserKey(id)))
          => /\ id \notin SMembers(store', "users")
             /\ id \notin SessionIds(last'.ret)
             /\ \A i \in 1..Len(last'.ret) : Truthy(last'.ret[i])]_vars

\* a get_users that iterated an expired session beside a live one, listed the
\* live one and pruned the expired one
C1_Witness ==
    /\ last.op = "get_users"
    /\ Len(last.arg) = 2
    /\ Len(last.ret) = 1
    /\ \E id \in Elements(last.arg) :
          /\ ~HasRecord(store, UserKey(id))
          /\ id \notin SMembers(store, "users")
          /\ id \notin SessionIds(last.ret)

\* C2: at most one ConnectionPool is ever created in the process, however the
\* concurrent Storage() calls interleave.
C2_AtMostOnePool == cls.pools <= 1

\* C3: pruning is safe.  When a get_users is about to return and every other
\* call has completed, no id it removed from 'users' has a live users:{id}
\* record while missing from 'users'.
C3_PruningSafe ==
    \A c \in 1..NumClients :
        (/\ At(c, "get_users:sort")
         /\ \A d \in 1..NumClients \ {c} : At(d, "idle"))
        => \A id \in Elements(clients[c].to_pop) :
              ~(HasRecord(store, UserKey(id)) /\ id \notin SMembers(store, "users"))

\* C4: range consistency.  In every state, for all bounds a and b,
\* count_tasks(a, b) is the length of the list get_tasks(a, b) returns.
C4_RangeConsistency ==
    \A a \in FirstDates, b \in LastDates :
        /\ GetTasksOf(store, a, b).exc = ""
        /\ Len(GetTasksOf(store, a, b).ret) = CountTasksOf(store, a, b)

\* a get_tasks whose bounds select one of two indexed tasks, one of them reported
C4_Witness ==
    /\ last.op = "get_tasks"
    /\ Len(last.ret) = 1
    /\ Cardinality(DOMAIN ZSetAt(store, "tasks")) = 2
    /\ CountTasksOf(store, last.arg[1], last.arg[2]) = 1
    /\ \E t \in TaskIds, w \in WorkerNames : HasRecord(store, ReportKey(t, w))

SetOps == {"set_user", "set_role", "set_file", "set_task", "set_observable", "set_report"}

\* the get operation on the identifier of record r, for the family op writes
GetAfter(db, op, r) ==
    CASE op = "set_user" -> GetUserOf(db, Format(r["session_id"]))
      [] op = "set_role" -> GetRoleOf(db, Format(r["name"]))
      [] op = "set_file" -> GetFileOf(db, Format(r["uuid"]))
      [] op = "set_task" -> GetTaskOf(db, Format(r["uuid"]))
      [] op = "set_observable" ->
            GetObservableOf(db, Format(r["sha256"]), Format(r["observable_type"]))
      [] op = "set_report" ->
            GetReportOf(db, Format(r["task_uuid"]), Format(r["worker_name"]))

\* C5 as claimed: directly after a set(r) that returned, get on r's identifier
\* returns every field supplied in r with r's value.
C5_RoundTrip ==
    (last.op \in SetOps /\ last.exc = "") =>
        \A f \in DOMAIN last.arg :
            /\ f \in DOMAIN GetAfter(store, last.op, last.arg)
            /\ GetAfter(store, last.op, last.arg)[f] = last.arg[f]

\* C5 as amended: directly after a set(r) that returned, get on r's
\* identifier returns every field supplied in r, its value as the str the
\* store keeps for it (a str as it is, an int as its text), except the
\* 'warninglist' field of an observable.
C5_RoundTripEncoded ==
    (last.op \in SetOps /\ last.exc = "") =>
        \A f \in DOMAIN last.arg \ (IF last.op = "set_observable" THEN {"warninglist"}
                                                                  ELSE {}) :
            /\ f \in DOMAIN GetAfter(store, last.op, last.arg)
            /\ GetAfter(store, last.op, last.arg)[f] = PyStr(last.arg[f].text)

\* a set_observable that overwrote last_seen of a stored observable and was
\* given a 'warninglist' the record does not keep
C5_Witness ==
    /\ last.op = "set_observable"
    /\ "warninglist" \in DOMAIN last.arg
    /\ Truthy(last.old)
    /\ last.old["last_seen"] # last.arg["last_seen"]
    /\ LET got == GetAfter(store, last.op, last.arg)
       IN  "warninglist" \notin DOMAIN got /\ got["last_seen"] = last.arg["last_seen"]

\* C6 as claimed: after set_user(r), get_user(r.session_id) returns exactly the
\* fields of r.
C6_Overwrite ==
    last.op = "set_user" =>
        GetUserOf(store, Format(last.arg["session_id"]))
            = [f \in DOMAIN last.arg |-> last.arg[f]]

\* C6 as amended: after set_user(r), get_user(r.session_id) returns the fields
\* of r with r's values together with the fields of the record stored before
\* that r does not supply, unchanged.
C6_OverwriteMerges ==
    last.op = "set_user" =>
        GetUserOf(store, Format(last.arg["session_id"]))
            = [f \in DOMAIN last.arg \cup DOMAIN last.old |->
                  IF f \in DOMAIN last.arg THEN last.arg[f] ELSE last.old[f]]

\* a set_user without 'name' over a record that had one: the name is still there
C6_Witness ==
    /\ last.op = "set_user"
    /\ "name" \notin DOMAIN last.arg
    /\ "name" \in DOMAIN last.old
    /\ last.old["last_seen"] # last.arg["last_seen"]
    /\ "name" \in DOMAIN GetUserOf(store, Format(last.arg["session_id"]))

\* C7: after set_report(r) the record tasks:{r.task_uuid} has no 'status'
\* field, and a task record without 'status' gets one only by a set_task for
\* that task whose record supplies it.
C7_ReportClearsStatus ==
    [][/\ last'.op = "set_report"
            => "status" \notin DOMAIN GetTaskOf(store', Format(last'.arg["task_uuid"]))
       /\ \A t \in TaskIds :
            (/\ "status" \notin DOMAIN GetTaskOf(store, t)
             /\ "status" \in DOMAIN GetTaskOf(store', t))
            => /\ last'.op = "set_task"
               /\ Format(last'.arg["uuid"]) = t
               /\ "status" \in DOMAIN last'.arg]_vars

\* a set_report for a task whose record had a status: the record is still
\* there, without it
C7_Witness ==
    /\ last.op = "set_report"
    /\ "status" \in DOMAIN last.old
    /\ LET task == GetTaskOf(store, Format(last.arg["task_uuid"]))
       IN  Truthy(task) /\ "status" \notin DOMAIN task

\* C8: record/index pairing.  Every existing user, role, file, task and
\* observable record has its id in the index of its family.
C8_RecordIndexPairing ==
    /\ \A id \in UserIds :
          HasRecord(store, UserKey(id)) => id \in SMembers(store, "users")
    /\ \A n \in RoleNames :
          HasRecord(store, RoleKey(n)) => n \in SMembers(store, "roles")
    /\ \A id \in FileIds :
          HasRecord(store, FileKey(id)) => id \in SMembers(store, "files")
    /\ \A id \in TaskIds :
          HasRecord(store, TaskKey(id)) => id \in DOMAIN ZSetAt(store, "tasks")
    /\ \A s \in Sha256s, t \in ObservableTypes :
          HasRecord(store, ObservableKey(ObservableId(s, t)))
              => ObservableId(s, t) \in DOMAIN ZSetAt(store, "observables")

\* a session has just expired and is still indexed, beside a live indexed one
C8_Witness ==
    /\ last.op = "expired"
    /\ last.arg \in SMembers(store, "users")
    /\ ~HasRecord(store, UserKey(last.arg))
    /\ \E id \in UserIds :
          HasRecord(store, UserKey(id)) /\ id \in SMembers(store, "users")

\* C9: every existing users:{id} record has an expiry set, in every reachable
\* state: also between the commands of set_user and after a client died there.
C9_SessionsHaveTtl ==
    \A id \in UserIds : HasRecord(store, UserKey(id)) => UserKey(id) \in store.ttl

Descending(s, field) ==
    \A i, j \in 1..Len(s) : i < j => StrLeq(s[j][field].text, s[i][field].text)

C11_LegacyFieldRemoved ==
    [][\A c \in 1..NumClients :
          (/\ At(c, "set_observable:zadd")
           /\ clients'[c].pc = "idle"
           /\ \A d \in 1..NumClients \ {c} :
                  clients[d].pc # "idle"
                      => ObservableIdOf(clients[d].observable)
                             # ObservableIdOf(clients[c].observable))
          => "warninglist" \notin
                 DOMAIN GetObservableById(store', ObservableIdOf(clients[c].observable))]_vars

\* a set_observable without 'warninglist' has completed on the record stored
\* the old way: the record keeps its other old fields and has lost that one
C11_Witness ==
    /\ AllIdle
    /\ last.op = "set_observable"
    /\ "warninglist" \notin DOMAIN last.arg
    /\ LET record == GetObservableById(store, ObservableIdOf(last.arg))
       IN  /\ "value" \in DOMAIN record
           /\ record["last_seen"] = last.arg["last_seen"]
           /\ "warninglist" \notin DOMAIN record

\* C12: composite lookup equivalence.  In every state, for all S and Ty (the
\* empty string and 'None' among them), get_observable(sha256=S,
\* observable_type=Ty) and get_observable(identifier='S-Ty') return the same
\* record.
C12_LookupEquivalence ==
    \A S \in Sha256s \cup {"", "None"}, Ty \in ObservableTypes \cup {"", "None"} :
        GetObservableOf(store, S, Ty) = GetObservableById(store, S \o "-" \o Ty)

\* a lookup by identifier has returned the stored record of an observable,
\* while the other observable has none
C12_Witness ==
    /\ last.op = "get_observable:identifier"
    /\ Truthy(last.ret)
    /\ ObservableIdOf(last.ret) = last.arg
    /\ \E s \in Sha256s, t \in ObservableTypes : ~Truthy(GetObservableOf(store, s, t))

\* C13: fail-fast on malformed timestamps.  A set_task whose save_date, or a
\* set_observable whose last_seen, does not parse ends in a ValueError and
\* leaves the whole database as it was.
C13_FailFast ==
    [][/\ (last'.op = "set_task" /\ FromIsoRaises(Format(last'.arg["save_date"])))
            => (last'.exc = "ValueError" /\ store' = store)
       /\ (last'.op = "set_observable" /\ FromIsoRaises(Format(last'.arg["last_seen"])))
            => (last'.exc = "ValueError" /\ store' = store)]_vars

\* a set_task with a malformed save_date and a status, for a task stored
\* without status: it raised and the record is as before
C13_Witness ==
    /\ last.op = "set_task"
    /\ last.exc = "ValueError"
    /\ "status" \in DOMAIN last.arg
    /\ Truthy(last.old)
    /\ "status" \notin DOMAIN last.old
    /\ GetTaskOf(store, Format(last.arg["uuid"])) = last.old

\* C14: del_users.  After a del_users that ran alone, get_user(id) is empty for
\* every id that was a member of 'users', the 'users' set is empty and
\* get_users() returns an empty list.
C14_DelUsers ==
    last.op = "del_users" =>
        /\ \A i \in 1..Len(last.old) : ~Truthy(GetUserOf(store, last.old[i]))
        /\ SMembers(store, "users") = {}
        /\ ~KeyExists(store, "users")
        /\ \A order \in Orders(SMembers(store, "users")) :
               GetUsersOf(store, order) = [db |-> store, ret |-> <<>>, exc |-> ""]

\* a del_users that found two members, and no session is left
C14_Witness ==
    /\ last.op = "del_users"
    /\ Len(last.old) = 2
    /\ \A id \in UserIds : ~HasRecord(store, UserKey(id))

\* the hash an add_..._observable call writes
ListKey(op) ==
    IF op = "add_suspicious_observable" THEN "suspicious_observables"
    ELSE "legitimate_observables"

AddAgain(db, op, observable, observable_type) ==
    IF op = "add_suspicious_observable"
    THEN AddSuspiciousObservableOf(db, observable, observable_type)
    ELSE AddLegitimateObservableOf(db, observable, observable_type)

\* C15: idempotence of the observable lists.  After add_suspicious_observable(v,
\* t) or add_legitimate_observable(v, t) the list holds the trimmed t under the
\* trimmed v, holds no entry under another spelling of v, keeps its entries
\* for other values, and the same call again, with the same or other
\* whitespace around v and t, leaves the database as it is.
C15_Idempotent ==
    last.op \in {"add_suspicious_observable", "add_legitimate_observable"} =>
        /\ HGetAll(store, ListKey(last.op))
              = [f \in DOMAIN last.old \cup {Text(Strip(last.arg[1]))} |->
                    IF f = Text(Strip(last.arg[1])) THEN PyStr(Text(Strip(last.arg[2])))
                    ELSE last.old[f]]
        /\ \A v \in ListedValues :
               (Strip(v) = Strip(last.arg[1])
                    /\ Text(v) \in DOMAIN HGetAll(store, ListKey(last.op)))
               => v = Strip(v)
        /\ \A v \in ListedValues, t \in ListedTypes :
               (Strip(v) = Strip(last.arg[1]) /\ Strip(t) = Strip(last.arg[2]))
               => AddAgain(store, last.op, v, t) = store

\* the second of two adds of one value with one type, spelt with different
\* whitespace each time, beside an entry for another value
C15_Witness ==
    /\ last.op = "add_suspicious_observable"
    /\ last.arg[1] # Strip(last.arg[1])
    /\ last.arg[2] # Strip(last.arg[2])
    /\ Text(Strip(last.arg[1])) \in DOMAIN last.old
    /\ last.old[Text(Strip(last.arg[1]))] = PyStr(Text(Strip(last.arg[2])))
    /\ Cardinality(DOMAIN GetSuspiciousObservablesOf(store)) = 2
    /\ GetSuspiciousObservablesOf(store) = last.old

\* numeric bounds a caller may give, around every score of the model
Epochs == {FromIsoTimestamp(d) : d \in Dates} \cup {0}
LowerBounds == {Num(n) : n \in Epochs}
UpperBounds == {Num(n) : n \in Epochs} \cup {PosInf}

\* a <= score <= b, for a number a and a number or '+Inf' b
Within(score, a, b) == a[2] <= score /\ (b[1] = "num" => score <= b[2])

\* the tasks set so far (a task record is never deleted)
TasksSet == {t \in TaskIds : HasRecord(store, TaskKey(t))}

\* the score of a task: the epoch value of the save_date of its record, which
\* is the one given to the most recent set_task for it
ScoreOf(t) == FromIsoTimestamp(GetTaskOf(store, t)["save_date"].text)

\* get_tasks(a, b) returns, each once, the records of the tasks set so far
\* whose score is within a and b
Selects(a, b) ==
    LET out == GetTasksOf(store, a, b)
        hits == {t \in TasksSet : Within(ScoreOf(t), a, b)}
    IN  /\ out.exc = ""
        /\ Len(out.ret) = Cardinality(hits)
        /\ {out.ret[i] : i \in 1..Len(out.ret)} = {GetTaskOf(store, t) : t \in hits}

\* after a set_task that returned, the record holds its save_date and the
\* index its epoch value
ScoresFollowSetTask ==
    (last.op = "set_task" /\ last.exc = "") =>
        /\ GetTaskOf(store, Format(last.arg["uuid"]))["save_date"] = last.arg["save_date"]
        /\ ZSetAt(store, "tasks")[Format(last.arg["uuid"])]
              = FromIsoTimestamp(Format(last.arg["save_date"]))

\* C16 as claimed: get_tasks(a, b) returns, each once, exactly the tasks whose
\* score satisfies a <= score <= b, and with the default bounds every task
\* ever set.
C16_RangeSelection ==
    /\ ScoresFollowSetTask
    /\ \A a \in LowerBounds, b \in UpperBounds : Selects(a, b)
    /\ Len(GetTasksOf(store, Num(0), PosInf).ret) = Cardinality(TasksSet)

\* C16 as amended: get_tasks(a, b) returns, each once, exactly the tasks whose
\* score satisfies a <= score <= b, and with the default bounds (0 and '+Inf')
\* every task ever set whose score is not negative.
C16_RangeSelectionFromEpoch ==
    /\ ScoresFollowSetTask
    /\ \A a \in LowerBounds, b \in UpperBounds : Selects(a, b)
    /\ Len(GetTasksOf(store, Num(0), PosInf).ret)
          = Cardinality({t \in TasksSet : ScoreOf(t) >= 0})

\* a get_tasks with the default bounds has returned one of two tasks, the
\* other one saved before the epoch
C16_Witness ==
    /\ last.op = "get_tasks"
    /\ last.arg = <<Num(0), PosInf>>
    /\ Len(last.ret) = 1
    /\ Cardinality(TasksSet) = 2
    /\ \E t \in TasksSet : ScoreOf(t) < 0

\* C17: get_task_observables(task_uuid) returns the records, all non-empty, of
\* the ids in '{task_uuid}:observables' that have one, once each, and changes
\* nothing in the database: not that set, not any other key.
C17_TaskObservables ==
    [][last'.op = "get_task_observables" =>
          LET linked == SMembers(store, TaskObservablesKey(last'.arg[1]))
              found == {id \in linked : HasRecord(store, ObservableKey(id))}
          IN  /\ store' = store
              /\ \A i \in 1..Len(last'.ret) : Truthy(last'.ret[i])
              /\ Len(last'.ret) = Cardinality(found)
              /\ {ObservableIdOf(last'.ret[i]) : i \in 1..Len(last'.ret)} = found]_vars

\* a get_task_observables over two linked ids, one of them never set: one
\* record returned, both ids still linked
C17_Witness ==
    /\ last.op = "get_task_observables"
    /\ Len(last.arg[2]) = 2
    /\ Len(last.ret) = 1
    /\ Cardinality(SMembers(store, TaskObservablesKey(last.arg[1]))) = 2
    /\ \E id \in Elements(last.arg[2]) : ~HasRecord(store, ObservableKey(id))

\* C18: composite primary-key uniqueness.  A set_report for one (task_uuid,
\* worker_name) pair leaves what get_report returns for every other pair as it
\* was, and a set_observable for one (sha256, observable_type) pair leaves
\* what get_observable returns for every other pair as it was.
C18_CompositeKeysUnique ==
    [][/\ last'.op = "set_report" =>
            \A t \in AnyTaskUuids, w \in AnyWorkerNames :
                <<t, w>> # <<Format(last'.arg["task_uuid"]), Format(last'.arg["worker_name"])>>
                    => GetReportOf(store', t, w) = GetReportOf(store, t, w)
       /\ last'.op = "set_observable" =>
            \A s \in AnySha256s, t \in AnyObservableTypes :
                <<s, t>> # <<Format(last'.arg["sha256"]),
                            Format(last'.arg["observable_type"])>>
                    => GetObservableOf(store', s, t) = GetObservableOf(store, s, t)]_vars

\* C19: every caller that has obtained the instance from Storage() and reads
\* its storage property finds the connection pool assigned: the read raises
\* no AttributeError, however the concurrent constructions interleave.
C19_PoolReady ==
    \A t \in 1..NumThreads : Thread(t).pc = "done" => Thread(t).exc = ""

\* C20: when del_users and set_user calls run concurrently and all of them
\* have completed, every users:{id} record has its id in the 'users' set.
C20_DelUsersKeepsPairing ==
    AllIdle =>
        \A id \in UserIds :
            HasRecord(store, UserKey(id)) => id \in SMembers(store, "users")

====
